---- MODULE Spec2Model ----
(***************************************************************************)
(* Finance Mirror API: the authentication / authorization dependency chain *)
(* (app/api/v1/deps.py), the employee data-access layer                    *)
(* (app/crud/crud_employee.py), the accounts-receivable endpoints          *)
(* (app/api/v1/endpoints/accounts_receivable.py) and the global exception  *)
(* handlers (app/main.py).                                                 *)
(*                                                                         *)
(* Python's None and Optional[T] are modelled as sequences of length <= 1: *)
(* <<>> is None, <<x>> is the value x.  Message texts that are Chinese in  *)
(* the source are ASCII transliterations here (the original is quoted in   *)
(* the comment next to each).                                              *)
(***************************************************************************)
EXTENDS Integers, Sequences, FiniteSets, TLC

----------------------------------------------------------------------------
(* Bounds of the model *)

NumUsers == 2
MaxTime == 2
NumCustomers == 2
NumNames == 2
NumInvoices == 2
NumRequests == 2

Usernames == 1..NumUsers
Times == 0..MaxTime
CustomerGuids == 1..NumCustomers
CustomerNames == 1..NumNames
InvoiceGuids == 1..NumInvoices
RequestIds == 1..NumRequests
Passwords == {"pw-a", "pw-b"}
Acls == {"admin", "staff"}

Opt(S) == {<<>>} \cup {<<x>> : x \in S}

----------------------------------------------------------------------------
(* Configuration: app/core/config.py *)

SECRET_KEY == "configured-secret"
ALGORITHM == "HS256"

Secrets == {SECRET_KEY, "other-secret"}
Algorithms == {ALGORITHM, "HS512"}

----------------------------------------------------------------------------
(* State *)

VARIABLES
    now,        \* the clock jwt.decode reads
    employees,  \* rows of the employee table
    customers,  \* rows of the customer table
    invoices,   \* rows of the invoice table
    request,    \* the request being answered: <<>> or <<[op, token, arg]>>
    gate,       \* the dependency chain's run for it: [trace, user]
    returned,   \* what the operation returned: <<>> or <<value>>
    raised,     \* the exception that left the operation: <<>> or <<exc>>
    response,   \* the HTTP response: <<>> or <<[status_code, content]>>
    log,        \* the lines the request wrote to the server log
    session,    \* the request's database session
    inflight    \* the customer requests that run concurrently, each with
                \* the await it stands at and its local variables

vars == <<now, employees, customers, invoices, request, gate, returned,
          raised, response, log, session, inflight>>

----------------------------------------------------------------------------
(* Bearer tokens.  A malformed token has no readable header or payload; a  *)
(* well-formed one carries the algorithm of its header, the secret it was  *)
(* signed with and the claims sub and exp, each of which may be absent.    *)

MalformedToken ==
    [wellformed |-> FALSE, alg |-> ALGORITHM, key |-> SECRET_KEY,
     sub |-> <<>>, exp |-> <<>>]

Tokens ==
    {MalformedToken} \cup
    [wellformed : {TRUE}, alg : Algorithms, key : Secrets,
     sub : Opt(Usernames), exp : Opt(Times)]

(* jwt.decode(token, settings.SECRET_KEY, algorithms=[settings.ALGORITHM]): *)
(* <<>> stands for a JWTError (malformed token, algorithm not allowed,      *)
(* signature mismatch, ExpiredSignatureError when exp < now); otherwise the *)
(* payload.  The signature is verified before the claims are validated.     *)
JwtDecode(token, secret, algorithm, clock) ==
    IF ~token.wellformed THEN <<>>
    ELSE IF token.alg # algorithm THEN <<>>
    ELSE IF token.key # secret THEN <<>>
    ELSE IF token.exp # <<>> /\ token.exp[1] < clock THEN <<>>
    ELSE <<[sub |-> token.sub, exp |-> token.exp]>>

----------------------------------------------------------------------------
(* app/core/security.py and app/core/exceptions.py *)

get_password_hash(password) == <<"hash", password>>

verify_password(password, hashed_password) ==
    hashed_password = get_password_hash(password)

CredentialsException ==
    [cls |-> "CredentialsException", status_code |-> 401,
     detail |-> "could not validate credentials"]

InactiveUserException ==
    [cls |-> "InactiveUserException", status_code |-> 400,
     detail |-> "inactive user"]

PermissionDeniedException ==
    [cls |-> "PermissionDeniedException", status_code |-> 403,
     detail |-> "permission denied"]

ConflictException(detail) ==
    [cls |-> "ConflictException", status_code |-> 409, detail |-> detail]

HTTPException(status_code, detail) ==
    [cls |-> "HTTPException", status_code |-> status_code, detail |-> detail]

(* type(exc).__mro__, most derived class first *)
Mro(cls) ==
    CASE cls = "RequestValidationError" ->
            <<"RequestValidationError", "Exception">>
      [] cls = "ValidationError" ->
            <<"ValidationError", "ValueError", "Exception">>
      [] cls = "BusinessException" ->
            <<"BusinessException", "HTTPException", "Exception">>
      [] cls = "NotFoundException" ->
            <<"NotFoundException", "BusinessException", "HTTPException",
              "Exception">>
      [] cls = "ConflictException" ->
            <<"ConflictException", "BusinessException", "HTTPException",
              "Exception">>
      [] cls = "CredentialsException" ->
            <<"CredentialsException", "BusinessException", "HTTPException",
              "Exception">>
      [] cls = "InactiveUserException" ->
            <<"InactiveUserException", "BusinessException", "HTTPException",
              "Exception">>
      [] cls = "PermissionDeniedException" ->
            <<"PermissionDeniedException", "BusinessException",
              "HTTPException", "Exception">>
      [] cls = "HTTPException" -> <<"HTTPException", "Exception">>
      [] cls = "IntegrityError" ->
            <<"IntegrityError", "DBAPIError", "SQLAlchemyError", "Exception">>
      [] cls = "OperationalError" ->
            <<"OperationalError", "DBAPIError", "SQLAlchemyError",
              "Exception">>
      [] cls = "ValueError" -> <<"ValueError", "Exception">>
      [] OTHER -> <<"Exception">>

----------------------------------------------------------------------------
(* The Error Dispatcher: app/main.py *)

Range(seq) == {seq[i] : i \in 1..Len(seq)}

(* The classes that have a handler, in registration order: FastAPI() itself *)
(* registers one for HTTPException, the decorators add the others.          *)
ExceptionHandlers ==
    <<"HTTPException", "RequestValidationError", "ValidationError",
      "BusinessException", "NotFoundException", "ConflictException",
      "IntegrityError", "Exception">>

RECURSIVE FirstRegistered(_)
FirstRegistered(mro) ==
    IF mro = <<>> THEN "Exception"
    ELSE IF Head(mro) \in Range(ExceptionHandlers) THEN Head(mro)
    ELSE FirstRegistered(Tail(mro))

(* A lookup that takes the first registered handler whose class the         *)
(* exception is an instance of, instead of walking the exception's MRO.     *)
LookupHandlerByRegistrationOrder(cls) ==
    LET hits == {i \in 1..Len(ExceptionHandlers) :
                    ExceptionHandlers[i] \in Range(Mro(cls))}
    IN  ExceptionHandlers[CHOOSE i \in hits : \A j \in hits : i <= j]

(* The handler that answers an exception of class cls: the first class of   *)
(* its MRO that has a handler.                                              *)
LookupHandler(cls) == FirstRegistered(Mro(cls))

JSONResponse(status_code, content) ==
    [status_code |-> status_code, content |-> content]

http_exception_handler(exc) ==
    [response |-> JSONResponse(exc.status_code, [detail |-> exc.detail]),
     log |-> <<>>]

validation_exception_handler(exc) ==
    [response |-> JSONResponse(422, [detail |-> exc.detail]),
     log |-> << <<"Validation error", exc.detail>> >>]

pydantic_validation_exception_handler(exc) ==
    [response |-> JSONResponse(422, [detail |-> exc.detail]),
     log |-> << <<"Pydantic validation error", exc.detail>> >>]

business_exception_handler(exc) ==
    [response |-> JSONResponse(exc.status_code,
                     [message |-> exc.detail, type |-> "business_error"]),
     log |-> <<>>]

not_found_exception_handler(exc) ==
    [response |-> JSONResponse(exc.status_code,
                     [message |-> exc.detail, type |-> "not_found"]),
     log |-> <<>>]

conflict_exception_handler(exc) ==
    [response |-> JSONResponse(exc.status_code,
                     [message |-> exc.detail, type |-> "conflict"]),
     log |-> <<>>]

(* "数据库完整性错误，请检查数据关联。" *)
integrity_exception_handler(exc) ==
    [response |-> JSONResponse(400,
                     [message |-> "database integrity error",
                      type |-> "integrity_error"]),
     log |-> <<>>]

(* A catch-all that puts the exception's text into the body. *)
general_exception_handler_leaking(exc) ==
    [response |-> JSONResponse(500,
                     [message |-> exc.detail,
                      type |-> "internal_server_error"]),
     log |-> << <<"Unhandled exception", exc.detail>> >>]

(* "服务器内部错误" *)
general_exception_handler(exc) ==
    [response |-> JSONResponse(500,
                     [message |-> "internal server error",
                      type |-> "internal_server_error"]),
     log |-> << <<"Unhandled exception", exc.detail>> >>]

(* The response and the log lines for an exception that left a handler or   *)
(* a dependency.                                                            *)
Dispatch(exc) ==
    LET h == LookupHandler(exc.cls)
    IN  CASE h = "HTTPException" -> http_exception_handler(exc)
          [] h = "RequestValidationError" -> validation_exception_handler(exc)
          [] h = "ValidationError" ->
                pydantic_validation_exception_handler(exc)
          [] h = "BusinessException" -> business_exception_handler(exc)
          [] h = "NotFoundException" -> not_found_exception_handler(exc)
          [] h = "ConflictException" -> conflict_exception_handler(exc)
          [] h = "IntegrityError" -> integrity_exception_handler(exc)
          [] OTHER -> general_exception_handler(exc)

----------------------------------------------------------------------------
(* The employee table and CRUDEmployee: app/crud/crud_employee.py *)

Hashes == {get_password_hash(p) : p \in Passwords}

Employees ==
    [username : Usernames, hashed_password : Hashes, active : BOOLEAN,
     acl : Acls]

(* The unique constraint on employee.username *)
UniqueUsernames(table) ==
    \A a, b \in table : a.username = b.username => a = b

(* An AsyncSession: rows added and not yet flushed, rows changed and not    *)
(* yet flushed (<<stored row, changed row>>), and whether a flush failed.   *)
CleanSession == [pending |-> {}, dirty |-> {}, failed |-> FALSE]

SessionAdd(sess, row) == [sess EXCEPT !.pending = @ \cup {row}]

SessionChange(sess, old, new) ==
    [sess EXCEPT !.dirty = @ \cup {<<old, new>>}]

(* await db.commit(): the flush raises IntegrityError when the table would  *)
(* break its unique constraint, and may fail for a reason of the database   *)
(* (fault); otherwise the rows are stored.                                  *)
Commit(table, sess, fault) ==
    LET flushed ==
            ((table \ {d[1] : d \in sess.dirty})
                \cup {d[2] : d \in sess.dirty}) \cup sess.pending
        distinct ==
            Cardinality(flushed) =
                Cardinality(table \ {d[1] : d \in sess.dirty})
                    + Cardinality(sess.dirty) + Cardinality(sess.pending)
    IN  IF fault
        THEN [exc |-> <<"OperationalError">>, table |-> table,
              session |-> [sess EXCEPT !.failed = TRUE]]
        ELSE IF ~(UniqueUsernames(flushed) /\ distinct)
        THEN [exc |-> <<"IntegrityError">>, table |-> table,
              session |-> [sess EXCEPT !.failed = TRUE]]
        ELSE [exc |-> <<>>, table |-> flushed, session |-> CleanSession]

(* await db.rollback() *)
Rollback(sess) == CleanSession

(* select(Employee).where(Employee.username == username), then              *)
(* scalar_one_or_none()                                                     *)
get_by_username(table, username) ==
    IF \E e \in table : e.username = username
    THEN <<CHOOSE e \in table : e.username = username>>
    ELSE <<>>

(* The payloads of create: a dict or an EmployeeCreate dumped with          *)
(* exclude_unset, so that password and hashed_password may each be absent.  *)
EmployeeCreates ==
    [username : Usernames, password : Opt(Passwords),
     hashed_password : Opt(Hashes), active : BOOLEAN, acl : Acls]

CrudOutcome(table, sess, ret, exc) ==
    [table |-> table, session |-> sess, returned |-> ret, raised |-> exc]

(* create without the except IntegrityError clause: the violation is rolled *)
(* back and re-raised by the except Exception clause.                       *)
CRUDEmployee_create_uncaught(table, obj_in, fault) ==
    IF obj_in.password = <<>> /\ obj_in.hashed_password = <<>>
    THEN CrudOutcome(table, CleanSession, <<>>,
            <<[cls |-> "ValueError", detail |-> "password required"]>>)
    ELSE
    LET db_obj ==
            [username |-> obj_in.username,
             hashed_password |->
                IF obj_in.password # <<>>
                THEN get_password_hash(obj_in.password[1])
                ELSE obj_in.hashed_password[1],
             active |-> obj_in.active, acl |-> obj_in.acl]
        c == Commit(table, SessionAdd(CleanSession, db_obj), fault)
    IN  IF c.exc = <<>>
        THEN CrudOutcome(c.table, c.session, <<db_obj>>, <<>>)
        ELSE CrudOutcome(c.table, Rollback(c.session), <<>>,
                <<[cls |-> c.exc[1], detail |-> "commit failed"]>>)

(* CRUDEmployee.create.  "创建员工时必须提供 'password' 或                   *)
(* 'hashed_password'" is "password required", "用户名或ID已存在" is          *)
(* "username or id exists".                                                 *)
CRUDEmployee_create(table, obj_in, fault) ==
    IF obj_in.password = <<>> /\ obj_in.hashed_password = <<>>
    THEN CrudOutcome(table, CleanSession, <<>>,
            <<[cls |-> "ValueError", detail |-> "password required"]>>)
    ELSE
    LET db_obj ==
            [username |-> obj_in.username,
             hashed_password |->
                IF obj_in.password # <<>>
                THEN get_password_hash(obj_in.password[1])
                ELSE obj_in.hashed_password[1],
             active |-> obj_in.active, acl |-> obj_in.acl]
        c == Commit(table, SessionAdd(CleanSession, db_obj), fault)
    IN  IF c.exc = <<>>
        THEN CrudOutcome(c.table, c.session, <<db_obj>>, <<>>)
        ELSE IF c.exc = <<"IntegrityError">>
        THEN CrudOutcome(c.table, Rollback(c.session), <<>>,
                <<ConflictException("username or id exists")>>)
        ELSE CrudOutcome(c.table, Rollback(c.session), <<>>,
                <<[cls |-> c.exc[1], detail |-> "commit failed"]>>)

(* The payloads of update, each field present or absent; at most one field  *)
(* is set in a payload of the model.                                        *)
EmployeeUpdates ==
    {u \in [username : Opt(Usernames), password : Opt(Passwords),
            active : Opt(BOOLEAN), acl : Opt(Acls)] :
        Len(u.username) + Len(u.password) + Len(u.active) + Len(u.acl) <= 1}

(* CRUDEmployee.update.  "更新失败，数据冲突（如用户名已被占用）。" is        *)
(* "update conflict".                                                       *)
CRUDEmployee_update(table, db_obj, obj_in, fault) ==
    LET changed ==
            [username |->
                IF obj_in.username # <<>> THEN obj_in.username[1]
                ELSE db_obj.username,
             hashed_password |->
                IF obj_in.password # <<>>
                THEN get_password_hash(obj_in.password[1])
                ELSE db_obj.hashed_password,
             active |->
                IF obj_in.active # <<>> THEN obj_in.active[1]
                ELSE db_obj.active,
             acl |-> IF obj_in.acl # <<>> THEN obj_in.acl[1] ELSE db_obj.acl]
        c == Commit(table, SessionChange(CleanSession, db_obj, changed), fault)
    IN  IF c.exc = <<>>
        THEN CrudOutcome(c.table, c.session, <<changed>>, <<>>)
        ELSE IF c.exc = <<"IntegrityError">>
        THEN CrudOutcome(c.table, Rollback(c.session), <<>>,
                <<ConflictException("update conflict")>>)
        ELSE CrudOutcome(c.table, Rollback(c.session), <<>>,
                <<[cls |-> c.exc[1], detail |-> "commit failed"]>>)

(* authenticate that tells an unknown username apart from a wrong password. *)
CRUDEmployee_authenticate_telling(table, username, password) ==
    LET user == get_by_username(table, username)
    IN  IF user = <<>> THEN <<"no such user">>
        ELSE IF ~user[1].active THEN <<>>
        ELSE IF ~verify_password(password, user[1].hashed_password) THEN <<>>
        ELSE user

(* CRUDEmployee.authenticate: the user, or None *)
CRUDEmployee_authenticate(table, username, password) ==
    LET user == get_by_username(table, username)
    IN  IF user = <<>> THEN <<>>
        ELSE IF ~user[1].active THEN <<>>
        ELSE IF ~verify_password(password, user[1].hashed_password) THEN <<>>
        ELSE user

----------------------------------------------------------------------------
(* The dependency chain: app/api/v1/deps.py.  A run of the chain is the     *)
(* exception it raised (or none), the user it resolved (or none) and the    *)
(* checks it ran, in order.                                                 *)

GateRun(exc, user, trace) == [exc |-> exc, user |-> user, trace |-> trace]

NoGate == GateRun(<<>>, <<>>, <<>>)

(* UserWithAuth.model_validate(user) *)
UserWithAuth(user) ==
    [username |-> user.username, active |-> user.active, acl |-> user.acl]

(* get_current_user that answers an unknown subject with a 404 of its own. *)
get_current_user_not_found(token) ==
    LET payload == JwtDecode(token, SECRET_KEY, ALGORITHM, now)
    IN  IF payload = <<>>
        THEN GateRun(<<CredentialsException>>, <<>>, <<"jwt.decode">>)
        ELSE IF payload[1].sub = <<>>
        THEN GateRun(<<CredentialsException>>, <<>>, <<"jwt.decode">>)
        ELSE
        LET user == get_by_username(employees, payload[1].sub[1])
        IN  IF user = <<>>
            THEN GateRun(<<HTTPException(404, "user not found")>>, <<>>,
                         <<"jwt.decode", "get_by_username">>)
            ELSE GateRun(<<>>, <<UserWithAuth(user[1])>>,
                         <<"jwt.decode", "get_by_username">>)

(* get_current_user that looks the subject up before it looks at the       *)
(* outcome of jwt.decode, and takes the token's word for the subject.      *)
get_current_user_lookup_first(token) ==
    LET payload == JwtDecode(token, SECRET_KEY, ALGORITHM, now)
        user == IF token.sub = <<>> THEN <<>>
                ELSE get_by_username(employees, token.sub[1])
    IN  IF user = <<>>
        THEN GateRun(<<CredentialsException>>, <<>>,
                     <<"get_by_username", "jwt.decode">>)
        ELSE GateRun(<<>>, <<UserWithAuth(user[1])>>,
                     <<"get_by_username", "jwt.decode">>)

get_current_user(token) ==
    LET payload == JwtDecode(token, SECRET_KEY, ALGORITHM, now)
    IN  IF payload = <<>>
        THEN GateRun(<<CredentialsException>>, <<>>, <<"jwt.decode">>)
        ELSE IF payload[1].sub = <<>>
        THEN GateRun(<<CredentialsException>>, <<>>, <<"jwt.decode">>)
        ELSE
        LET user == get_by_username(employees, payload[1].sub[1])
        IN  IF user = <<>>
            THEN GateRun(<<CredentialsException>>, <<>>,
                         <<"jwt.decode", "get_by_username">>)
            ELSE GateRun(<<>>, <<UserWithAuth(user[1])>>,
                         <<"jwt.decode", "get_by_username">>)

(* get_current_active_user without the check of the active flag. *)
get_current_active_user_unchecked(token) ==
    LET current_user == get_current_user(token)
    IN  IF current_user.exc # <<>> THEN current_user
        ELSE GateRun(<<>>, current_user.user,
                     Append(current_user.trace, "active"))

get_current_active_user(token) ==
    LET current_user == get_current_user(token)
    IN  IF current_user.exc # <<>> THEN current_user
        ELSE IF ~current_user.user[1].active
        THEN GateRun(<<InactiveUserException>>, current_user.user,
                     Append(current_user.trace, "active"))
        ELSE GateRun(<<>>, current_user.user,
                     Append(current_user.trace, "active"))

(* get_current_active_superuser without the check of acl. *)
get_current_active_superuser_unchecked(token) ==
    LET current_user == get_current_active_user(token)
    IN  IF current_user.exc # <<>> THEN current_user
        ELSE GateRun(<<>>, current_user.user,
                     Append(current_user.trace, "acl"))

(* get_current_active_superuser that looks at acl before the active flag. *)
get_current_active_superuser_acl_first(token) ==
    LET current_user == get_current_user(token)
    IN  IF current_user.exc # <<>> THEN current_user
        ELSE IF current_user.user[1].acl # "admin"
        THEN GateRun(<<PermissionDeniedException>>, current_user.user,
                     Append(current_user.trace, "acl"))
        ELSE IF ~current_user.user[1].active
        THEN GateRun(<<InactiveUserException>>, current_user.user,
                     current_user.trace \o <<"acl", "active">>)
        ELSE GateRun(<<>>, current_user.user,
                     current_user.trace \o <<"acl", "active">>)

get_current_active_superuser(token) ==
    LET current_user == get_current_active_user(token)
    IN  IF current_user.exc # <<>> THEN current_user
        ELSE IF current_user.user[1].acl # "admin"
        THEN GateRun(<<PermissionDeniedException>>, current_user.user,
                     Append(current_user.trace, "acl"))
        ELSE GateRun(<<>>, current_user.user,
                     Append(current_user.trace, "acl"))

Dependencies ==
    {"get_current_user", "get_current_active_user",
     "get_current_active_superuser"}

(* Depends(dep): the chain an endpoint declares *)
Depends(dep, token) ==
    CASE dep = "get_current_user" -> get_current_user(token)
      [] dep = "get_current_active_user" -> get_current_active_user(token)
      [] dep = "get_current_active_superuser" ->
            get_current_active_superuser(token)

----------------------------------------------------------------------------
(* Customers and invoices: app/crud (crud_customer, crud_invoice) and       *)
(* app/api/v1/endpoints/accounts_receivable.py.  What a handler does after  *)
(* its dependencies resolved is an operator from the table and the          *)
(* request's arguments to the table it leaves, the value it returns and the *)
(* exception it raises.                                                     *)

Outcome(table, ret, exc) == [table |-> table, returned |-> ret, raised |-> exc]

(* CRUDBase.get(db, id=guid) *)
crud_get(table, guid) ==
    IF \E r \in table : r.guid = guid
    THEN <<CHOOSE r \in table : r.guid = guid>>
    ELSE <<>>

(* CRUDBase.update(db, db_obj=db_obj, obj_in=...): the row with its fields  *)
(* set                                                                      *)
crud_update(table, db_obj, changed) == (table \ {db_obj}) \cup {changed}

(* crud_customer.get_by_name(db, name=name) *)
crud_customer_get_by_name(table, name) ==
    IF \E r \in table : r.name = name
    THEN <<CHOOSE r \in table : r.name = name>>
    ELSE <<>>

FreeGuids(table, guids) == guids \ {r.guid : r \in table}

(* void_sales_invoice without the check that the invoice is still active. *)
void_sales_invoice_unchecked(table, guid) ==
    LET db_invoice == crud_get(table, guid)
    IN  IF db_invoice = <<>>
        THEN Outcome(table, <<>>, <<HTTPException(404, "invoice not found")>>)
        ELSE Outcome(crud_update(table, db_invoice[1],
                        [db_invoice[1] EXCEPT !.active = FALSE]), <<>>, <<>>)

(* "发票未找到" is "invoice not found", "发票已经被作废" is "invoice already *)
(* voided".                                                                 *)
void_sales_invoice(table, guid) ==
    LET db_invoice == crud_get(table, guid)
    IN  IF db_invoice = <<>>
        THEN Outcome(table, <<>>, <<HTTPException(404, "invoice not found")>>)
        ELSE IF ~db_invoice[1].active
        THEN Outcome(table, <<>>,
                <<HTTPException(400, "invoice already voided")>>)
        ELSE Outcome(crud_update(table, db_invoice[1],
                        [db_invoice[1] EXCEPT !.active = FALSE]), <<>>, <<>>)

(* "发票未被作废，无需取消" is "invoice not voided". *)
unvoid_sales_invoice(table, guid) ==
    LET db_invoice == crud_get(table, guid)
    IN  IF db_invoice = <<>>
        THEN Outcome(table, <<>>, <<HTTPException(404, "invoice not found")>>)
        ELSE IF db_invoice[1].active
        THEN Outcome(table, <<>>,
                <<HTTPException(400, "invoice not voided")>>)
        ELSE LET updated_invoice == [db_invoice[1] EXCEPT !.active = TRUE]
             IN  Outcome(crud_update(table, db_invoice[1], updated_invoice),
                         <<updated_invoice>>, <<>>)

(* "不能发送已作废的发票" is "cannot send a voided invoice". *)
send_sales_invoice(table, guid) ==
    LET db_invoice == crud_get(table, guid)
    IN  IF db_invoice = <<>>
        THEN Outcome(table, <<>>, <<HTTPException(404, "invoice not found")>>)
        ELSE IF ~db_invoice[1].active
        THEN Outcome(table, <<>>,
                <<HTTPException(400, "cannot send a voided invoice")>>)
        ELSE Outcome(table, db_invoice, <<>>)

(* crud_invoice.create(db, obj_in=invoice_in): the new invoice is stored    *)
(* under a guid of its own, not voided.                                     *)
create_sales_invoice(table, guid) ==
    LET invoice == [guid |-> guid, active |-> TRUE]
    IN  Outcome(table \cup {invoice}, <<invoice>>, <<>>)

(* create_customer without the lookup of the name. *)
create_customer_unchecked(table, customer_in, guid) ==
    LET created == [guid |-> guid, name |-> customer_in.name]
    IN  Outcome(table \cup {created}, <<created>>, <<>>)

(* "客户名称已存在" is "customer name exists". *)
create_customer(table, customer_in, guid) ==
    LET customer == crud_customer_get_by_name(table, customer_in.name)
    IN  IF customer # <<>>
        THEN Outcome(table, <<>>,
                <<ConflictException("customer name exists")>>)
        ELSE LET created == [guid |-> guid, name |-> customer_in.name]
             IN  Outcome(table \cup {created}, <<created>>, <<>>)

(* "客户未找到" is "customer not found", "新的客户名称已被其他客户使用" is    *)
(* "customer name in use".                                                  *)
update_customer(table, guid, customer_in) ==
    LET customer == crud_get(table, guid)
    IN  IF customer = <<>>
        THEN Outcome(table, <<>>,
                <<HTTPException(404, "customer not found")>>)
        ELSE IF /\ customer_in.name # <<>>
                /\ customer_in.name[1] # customer[1].name
                /\ crud_customer_get_by_name(table, customer_in.name[1]) # <<>>
        THEN Outcome(table, <<>>,
                <<ConflictException("customer name in use")>>)
        ELSE LET updated ==
                    IF customer_in.name # <<>>
                    THEN [customer[1] EXCEPT !.name = customer_in.name[1]]
                    ELSE customer[1]
             IN  Outcome(crud_update(table, customer[1], updated),
                         <<updated>>, <<>>)

----------------------------------------------------------------------------
(* Requests.  One request is answered at a time: an operation runs from     *)
(* its dependencies to its response in one step, and the request ends       *)
(* (Close) before the next one starts.                                      *)

Idle == request = <<>>

(* The handler runs only when the dependency chain raised nothing. *)
Guarded(g, table, out) ==
    IF g.exc # <<>> THEN Outcome(table, <<>>, g.exc) ELSE out

(* The request layer: the handler's return value becomes the response, an   *)
(* exception goes through the Error Dispatcher.                             *)
Answer(req, g, out, status_code) ==
    /\ request' = <<req>>
    /\ gate' = g
    /\ raised' = out.raised
    /\ returned' = out.returned
    /\ response' =
          IF out.raised # <<>> THEN <<Dispatch(out.raised[1]).response>>
          ELSE <<JSONResponse(status_code, out.returned)>>
    /\ log' = IF out.raised # <<>> THEN Dispatch(out.raised[1]).log ELSE <<>>
    /\ UNCHANGED inflight

(* A call of the data-access layer: no dependency chain, no response. *)
Called(req, out) ==
    /\ request' = <<req>>
    /\ gate' = NoGate
    /\ raised' = out.raised
    /\ returned' = out.returned
    /\ response' = <<>>
    /\ log' = <<>>
    /\ UNCHANGED inflight

SeedEmployee ==
    [username |-> 1, hashed_password |-> get_password_hash("pw-a"),
     active |-> TRUE, acl |-> "admin"]

Init ==
    /\ now = 0
    /\ employees = {SeedEmployee}
    /\ customers = {}
    /\ invoices = {}
    /\ request = <<>>
    /\ gate = NoGate
    /\ returned = <<>>
    /\ raised = <<>>
    /\ response = <<>>
    /\ log = <<>>
    /\ session = CleanSession
    /\ inflight = [r \in RequestIds |-> [pc |-> "idle"]]

Tick ==
    /\ Idle
    /\ now < MaxTime
    /\ now' = now + 1
    /\ UNCHANGED <<employees, customers, invoices, request, gate, returned,
                   raised, response, log, session, inflight>>

(* get_db's finally clause and the end of the request: the session is       *)
(* closed, the principal and the response are gone.                         *)
Close ==
    /\ ~Idle
    /\ request' = <<>>
    /\ gate' = NoGate
    /\ returned' = <<>>
    /\ raised' = <<>>
    /\ response' = <<>>
    /\ log' = <<>>
    /\ session' = CleanSession
    /\ UNCHANGED <<now, employees, customers, invoices, inflight>>

(* An endpoint that declares the dependency dep and returns current_user. *)
ProtectedEndpoint(dep, token) ==
    /\ LET g == Depends(dep, token)
           out == Guarded(g, {}, Outcome({}, g.user, <<>>))
       IN  Answer([op |-> "protected", dep |-> dep, token |-> token], g, out,
                  200)
    /\ UNCHANGED <<now, employees, customers, invoices, session>>

CreateEmployee(obj_in, fault) ==
    /\ LET out == CRUDEmployee_create(employees, obj_in, fault)
       IN  /\ employees' = out.table
           /\ session' = out.session
           /\ Called([op |-> "CRUDEmployee.create", obj_in |-> obj_in,
                      fault |-> fault], out)
    /\ UNCHANGED <<now, customers, invoices>>

UpdateEmployee(db_obj, obj_in, fault) ==
    /\ db_obj \in employees
    /\ LET out == CRUDEmployee_update(employees, db_obj, obj_in, fault)
       IN  /\ employees' = out.table
           /\ session' = out.session
           /\ Called([op |-> "CRUDEmployee.update", db_obj |-> db_obj,
                      obj_in |-> obj_in, fault |-> fault], out)
    /\ UNCHANGED <<now, customers, invoices>>

Authenticate(username, password) ==
    /\ Called([op |-> "CRUDEmployee.authenticate", username |-> username,
               password |-> password],
              [returned |->
                  CRUDEmployee_authenticate(employees, username, password),
               raised |-> <<>>])
    /\ UNCHANGED <<now, employees, customers, invoices, session>>

(* The exceptions a handler or a dependency may let escape. *)
Details == {"near SELECT employee.hashed_password", "Traceback deps.py"}

Exceptions ==
    [cls : {"RequestValidationError", "ValidationError", "IntegrityError",
            "OperationalError", "ValueError", "RuntimeError"},
     detail : Details]
    \cup
    [cls : {"HTTPException", "BusinessException", "NotFoundException",
            "ConflictException", "CredentialsException",
            "InactiveUserException", "PermissionDeniedException"},
     status_code : {400, 404, 409}, detail : Details]

(* Some route raises exc. *)
RouteRaises(exc) ==
    /\ Answer([op |-> "raise", exc |-> exc], NoGate,
              Outcome({}, <<>>, <<exc>>), 200)
    /\ UNCHANGED <<now, employees, customers, invoices, session>>

CreateSalesInvoice(token, guid) ==
    /\ LET g == get_current_active_user(token)
           out == Guarded(g, invoices, create_sales_invoice(invoices, guid))
       IN  /\ out.raised # <<>> \/ guid \in FreeGuids(invoices, InvoiceGuids)
           /\ invoices' = out.table
           /\ Answer([op |-> "create_sales_invoice", token |-> token], g, out,
                     201)
    /\ UNCHANGED <<now, employees, customers, session>>

VoidSalesInvoice(token, guid) ==
    /\ LET g == get_current_active_user(token)
           out == Guarded(g, invoices, void_sales_invoice(invoices, guid))
       IN  /\ invoices' = out.table
           /\ Answer([op |-> "void_sales_invoice", token |-> token,
                      guid |-> guid], g, out, 204)
    /\ UNCHANGED <<now, employees, customers, session>>

UnvoidSalesInvoice(token, guid) ==
    /\ LET g == get_current_active_user(token)
           out == Guarded(g, invoices, unvoid_sales_invoice(invoices, guid))
       IN  /\ invoices' = out.table
           /\ Answer([op |-> "unvoid_sales_invoice", token |-> token,
                      guid |-> guid], g, out, 200)
    /\ UNCHANGED <<now, employees, customers, session>>

SendSalesInvoice(token, guid) ==
    /\ LET g == get_current_active_user(token)
           out == Guarded(g, invoices, send_sales_invoice(invoices, guid))
       IN  /\ invoices' = out.table
           /\ Answer([op |-> "send_sales_invoice", token |-> token,
                      guid |-> guid], g, out, 200)
    /\ UNCHANGED <<now, employees, customers, session>>

CustomerCreates == [name : CustomerNames]

CustomerUpdates == [name : Opt(CustomerNames)]

CreateCustomer(token, customer_in, guid) ==
    /\ LET g == get_current_active_user(token)
           out == Guarded(g, customers,
                          create_customer(customers, customer_in, guid))
       IN  /\ out.raised # <<>> \/ guid \in FreeGuids(customers, CustomerGuids)
           /\ customers' = out.table
           /\ Answer([op |-> "create_customer", token |-> token,
                      customer_in |-> customer_in], g, out, 201)
    /\ UNCHANGED <<now, employees, invoices, session>>

UpdateCustomer(token, guid, customer_in) ==
    /\ LET g == get_current_active_user(token)
           out == Guarded(g, customers,
                          update_customer(customers, guid, customer_in))
       IN  /\ customers' = out.table
           /\ Answer([op |-> "update_customer", token |-> token,
                      guid |-> guid, customer_in |-> customer_in], g, out, 200)
    /\ UNCHANGED <<now, employees, invoices, session>>

Gate ==
    /\ Idle
    /\ \E dep \in Dependencies, token \in Tokens : ProtectedEndpoint(dep, token)

EmployeeCreate ==
    /\ Idle
    /\ \E obj_in \in EmployeeCreates, fault \in BOOLEAN :
       CreateEmployee(obj_in, fault)

EmployeeUpdate ==
    /\ Idle
    /\ \E db_obj \in employees, obj_in \in EmployeeUpdates, fault \in BOOLEAN :
       UpdateEmployee(db_obj, obj_in, fault)

Login ==
    /\ Idle
    /\ \E username \in Usernames, password \in Passwords :
       Authenticate(username, password)

ErrorDispatch ==
    /\ Idle
    /\ \E exc \in Exceptions : RouteRaises(exc)

InvoiceCreate ==
    /\ Idle
    /\ \E token \in Tokens, guid \in InvoiceGuids : CreateSalesInvoice(token, guid)

InvoiceVoid ==
    /\ Idle
    /\ \E token \in Tokens, guid \in InvoiceGuids : VoidSalesInvoice(token, guid)

InvoiceUnvoid ==
    /\ Idle
    /\ \E token \in Tokens, guid \in InvoiceGuids : UnvoidSalesInvoice(token, guid)

InvoiceSend ==
    /\ Idle
    /\ \E token \in Tokens, guid \in InvoiceGuids : SendSalesInvoice(token, guid)

CustomerCreate ==
    /\ Idle
    /\ \E token \in Tokens, customer_in \in CustomerCreates,
       guid \in CustomerGuids :
       CreateCustomer(token, customer_in, guid)

CustomerUpdate ==
    /\ Idle
    /\ \E token \in Tokens, guid \in CustomerGuids,
       customer_in \in CustomerUpdates :
       UpdateCustomer(token, guid, customer_in)

----------------------------------------------------------------------------
(* Concurrent customer requests.  create_customer and update_customer are   *)
(* coroutines: each await of a database call lets other requests run, and   *)
(* each request has a session of its own.  A request in flight stands at    *)
(* the await it will resume from, with the local variables it holds.        *)

Done(status_code) == [pc |-> "done", status_code |-> status_code]

StatusOf(exc) == Dispatch(exc).response.status_code

(* The UPDATE that crud_customer.update commits for a row loaded earlier:   *)
(* it sets the changed columns of the stored row with the loaded row's guid *)
crud_update_stored(table, db_obj, customer_in) ==
    {IF r.guid = db_obj.guid /\ customer_in.name # <<>>
     THEN [r EXCEPT !.name = customer_in.name[1]]
     ELSE r : r \in table}

(* create_customer from its start to the await of crud_customer.create:    *)
(* the dependency and the lookup of the name                                *)
BeginCreateCustomer(r, token, customer_in) ==
    /\ inflight[r].pc = "idle"
    /\ LET g == get_current_active_user(token)
           customer == crud_customer_get_by_name(customers, customer_in.name)
       IN  inflight' = [inflight EXCEPT ![r] =
              IF g.exc # <<>> THEN Done(StatusOf(g.exc[1]))
              ELSE IF customer # <<>>
              THEN Done(StatusOf(ConflictException("customer name exists")))
              ELSE [pc |-> "crud_customer.create",
                    customer_in |-> customer_in]]
    /\ UNCHANGED <<now, employees, customers, invoices, request, gate,
                   returned, raised, response, log, session>>

(* crud_customer.create(db=db, obj_in=customer_in) and the response *)
FinishCreateCustomer(r, guid) ==
    /\ inflight[r].pc = "crud_customer.create"
    /\ guid \in FreeGuids(customers, CustomerGuids)
    /\ customers' =
          customers \cup {[guid |-> guid, name |-> inflight[r].customer_in.name]}
    /\ inflight' = [inflight EXCEPT ![r] = Done(201)]
    /\ UNCHANGED <<now, employees, invoices, request, gate, returned, raised,
                   response, log, session>>

(* update_customer from its start to its next await: the dependency and    *)
(* crud_customer.get                                                        *)
BeginUpdateCustomer(r, token, guid, customer_in) ==
    /\ inflight[r].pc = "idle"
    /\ LET g == get_current_active_user(token)
           customer == crud_get(customers, guid)
       IN  inflight' = [inflight EXCEPT ![r] =
              IF g.exc # <<>> THEN Done(StatusOf(g.exc[1]))
              ELSE IF customer = <<>>
              THEN Done(StatusOf(HTTPException(404, "customer not found")))
              ELSE IF /\ customer_in.name # <<>>
                      /\ customer_in.name[1] # customer[1].name
              THEN [pc |-> "crud_customer.get_by_name",
                    customer |-> customer[1], customer_in |-> customer_in]
              ELSE [pc |-> "crud_customer.update",
                    customer |-> customer[1], customer_in |-> customer_in]]
    /\ UNCHANGED <<now, employees, customers, invoices, request, gate,
                   returned, raised, response, log, session>>

(* existing_customer = await crud_customer.get_by_name(...) *)
CheckUpdateCustomer(r) ==
    /\ inflight[r].pc = "crud_customer.get_by_name"
    /\ LET existing_customer ==
               crud_customer_get_by_name(customers,
                                         inflight[r].customer_in.name[1])
       IN  inflight' = [inflight EXCEPT ![r] =
              IF existing_customer # <<>>
              THEN Done(StatusOf(ConflictException("customer name in use")))
              ELSE [@ EXCEPT !.pc = "crud_customer.update"]]
    /\ UNCHANGED <<now, employees, customers, invoices, request, gate,
                   returned, raised, response, log, session>>

(* crud_customer.update(db=db, db_obj=customer, obj_in=customer_in) and    *)
(* the response                                                             *)
FinishUpdateCustomer(r) ==
    /\ inflight[r].pc = "crud_customer.update"
    /\ customers' =
          crud_update_stored(customers, inflight[r].customer,
                             inflight[r].customer_in)
    /\ inflight' = [inflight EXCEPT ![r] = Done(200)]
    /\ UNCHANGED <<now, employees, invoices, request, gate, returned, raised,
                   response, log, session>>

(* The response is sent and the request is over. *)
Respond(r) ==
    /\ inflight[r].pc = "done"
    /\ inflight' = [inflight EXCEPT ![r] = [pc |-> "idle"]]
    /\ UNCHANGED <<now, employees, customers, invoices, request, gate,
                   returned, raised, response, log, session>>

CreateLookup ==
    \E r \in RequestIds, token \in Tokens, customer_in \in CustomerCreates :
        BeginCreateCustomer(r, token, customer_in)

CreateWrite ==
    \E r \in RequestIds, guid \in CustomerGuids : FinishCreateCustomer(r, guid)

UpdateGet ==
    \E r \in RequestIds, token \in Tokens, guid \in CustomerGuids,
       customer_in \in CustomerUpdates :
        BeginUpdateCustomer(r, token, guid, customer_in)

UpdateLookup == \E r \in RequestIds : CheckUpdateCustomer(r)

UpdateWrite == \E r \in RequestIds : FinishUpdateCustomer(r)

ResponseSent == \E r \in RequestIds : Respond(r)

NextAuth ==
    \/ Tick
    \/ Close
    \/ Gate
    \/ EmployeeCreate
    \/ EmployeeUpdate
    \/ Login
    \/ ErrorDispatch

NextInvoices ==
    \/ Tick
    \/ Close
    \/ InvoiceCreate
    \/ InvoiceVoid
    \/ InvoiceUnvoid
    \/ InvoiceSend

NextCustomers ==
    \/ Tick
    \/ Close
    \/ CustomerCreate
    \/ CustomerUpdate

NextConcurrent ==
    \/ CreateLookup
    \/ CreateWrite
    \/ UpdateGet
    \/ UpdateLookup
    \/ UpdateWrite
    \/ ResponseSent

Next == NextAuth \/ NextInvoices \/ NextCustomers \/ NextConcurrent

Spec == Init /\ [][Next]_vars

(* The three tables are written by disjoint sets of operations, and the     *)
(* accounts-receivable endpoints only read the employee table: each side is *)
(* also a specification of its own.                                         *)
SpecAuth == Init /\ [][NextAuth]_vars

SpecInvoices == Init /\ [][NextInvoices]_vars

SpecCustomers == Init /\ [][NextCustomers]_vars

(* The customer endpoints with their requests interleaved at the awaits *)
SpecConcurrent == Init /\ [][NextConcurrent]_vars

----------------------------------------------------------------------------
(* What the properties below say about a token, in the words of the         *)
(* specification rather than of jwt.decode.                                 *)

SignedWithConfiguredSecret(token) ==
    token.wellformed /\ token.alg = ALGORITHM /\ token.key = SECRET_KEY

Expired(token) == token.wellformed /\ token.exp # <<>> /\ token.exp[1] < now

(* A validly signed, unexpired token whose subject is username *)
ValidTokenFor(token, username) ==
    /\ SignedWithConfiguredSecret(token)
    /\ ~Expired(token)
    /\ token.sub = <<username>>

Stored(username) == \E e \in employees : e.username = username

(* The request in hand went to an endpoint with one of the dependencies deps *)
ProtectedBy(deps) ==
    /\ request # <<>>
    /\ request[1].op = "protected"
    /\ request[1].dep \in deps

(* The token lets its bearer through get_current_active_user *)
Authorizes(token) ==
    \E e \in employees : e.active /\ ValidTokenFor(token, e.username)

----------------------------------------------------------------------------
(* C1: a request that carries a validly signed, unexpired token of a stored *)
(* user whose active flag is false, to an endpoint that depends on          *)
(* get_current_active_user or get_current_active_superuser, is rejected     *)
(* with InactiveUserException and returns nothing, although jwt.decode and  *)
(* the lookup of the user both ran and succeeded.                           *)
C1_InactiveUserRejected ==
    \A e \in employees :
        (/\ ProtectedBy({"get_current_active_user",
                         "get_current_active_superuser"})
         /\ ~e.active
         /\ ValidTokenFor(request[1].token, e.username))
        => /\ raised = <<InactiveUserException>>
           /\ returned = <<>>
           /\ response = <<Dispatch(InactiveUserException).response>>
           /\ gate.trace = <<"jwt.decode", "get_by_username", "active">>

C1_Witness ==
    /\ ProtectedBy({"get_current_active_superuser"})
    /\ \E e \in employees :
          ~e.active /\ ValidTokenFor(request[1].token, e.username)
    /\ raised = <<InactiveUserException>>

(* C2: for a stored user who is active and whose acl is not "admin", a      *)
(* valid token yields PermissionDeniedException on an endpoint that depends *)
(* on get_current_active_superuser, and the user itself on an endpoint that *)
(* depends on get_current_user or get_current_active_user.                  *)
C2_NonAdminForbiddenOnlyWhenGated ==
    \A e \in employees :
        (/\ ProtectedBy(Dependencies)
         /\ e.active
         /\ e.acl # "admin"
         /\ ValidTokenFor(request[1].token, e.username))
        => IF request[1].dep = "get_current_active_superuser"
           THEN /\ raised = <<PermissionDeniedException>>
                /\ returned = <<>>
                /\ response[1].status_code = 403
           ELSE /\ raised = <<>>
                /\ returned = <<UserWithAuth(e)>>
                /\ response[1].status_code = 200

C2_Witness ==
    /\ ProtectedBy({"get_current_active_superuser"})
    /\ \E e \in employees :
          /\ e.active
          /\ e.acl # "admin"
          /\ ValidTokenFor(request[1].token, e.username)
    /\ raised = <<PermissionDeniedException>>

(* C3: a token that is malformed, signed with another secret, expired       *)
(* (whatever its signature) or without a sub claim makes get_current_user   *)
(* fail with CredentialsException and nothing else, and the user is never   *)
(* looked up.                                                               *)
C3_BadTokenIsInvalidCredentials ==
    (/\ ProtectedBy(Dependencies)
     /\ \/ ~request[1].token.wellformed
        \/ request[1].token.key # SECRET_KEY
        \/ Expired(request[1].token)
        \/ request[1].token.sub = <<>>)
    => /\ raised = <<CredentialsException>>
       /\ returned = <<>>
       /\ gate.user = <<>>
       /\ gate.trace = <<"jwt.decode">>

C3_Witness ==
    /\ ProtectedBy(Dependencies)
    /\ SignedWithConfiguredSecret(request[1].token)
    /\ Expired(request[1].token)
    /\ request[1].token.sub # <<>>
    /\ Stored(request[1].token.sub[1])
    /\ raised = <<CredentialsException>>

(* C4: a validly signed, unexpired token whose subject is no stored user is *)
(* rejected with CredentialsException, and the exception and the response   *)
(* are those a token with a tampered signature gets on the same endpoint.   *)
C4_UnknownUserLooksLikeBadToken ==
    (/\ ProtectedBy(Dependencies)
     /\ request[1].token.sub # <<>>
     /\ ValidTokenFor(request[1].token, request[1].token.sub[1])
     /\ ~Stored(request[1].token.sub[1]))
    => /\ raised = <<CredentialsException>>
       /\ \A tampered \in Tokens :
            (tampered.wellformed /\ tampered.key # SECRET_KEY)
            => LET other == Depends(request[1].dep, tampered)
               IN  /\ raised = other.exc
                   /\ response = <<Dispatch(other.exc[1]).response>>
                   /\ log = Dispatch(other.exc[1]).log

C4_Witness ==
    /\ ProtectedBy(Dependencies)
    /\ request[1].token.sub # <<>>
    /\ ValidTokenFor(request[1].token, request[1].token.sub[1])
    /\ ~Stored(request[1].token.sub[1])
    /\ raised = <<CredentialsException>>
    /\ response[1].status_code = 401

(* C5: the checks run in the order jwt.decode, get_by_username, active,     *)
(* acl, as far as the endpoint's dependency goes; the first one that fails  *)
(* ends the request with its own exception and no later check runs; a       *)
(* principal exists only when the token verified and its subject is a       *)
(* stored user, and a request is let through only with a principal.         *)
Chain(dep) ==
    CASE dep = "get_current_user" -> <<"jwt.decode", "get_by_username">>
      [] dep = "get_current_active_user" ->
            <<"jwt.decode", "get_by_username", "active">>
      [] dep = "get_current_active_superuser" ->
            <<"jwt.decode", "get_by_username", "active", "acl">>

CheckFails(check, token) ==
    CASE check = "jwt.decode" ->
            ~(SignedWithConfiguredSecret(token) /\ ~Expired(token)
              /\ token.sub # <<>>)
      [] check = "get_by_username" -> ~Stored(token.sub[1])
      [] check = "active" ->
            \E e \in employees : e.username = token.sub[1] /\ ~e.active
      [] check = "acl" ->
            \E e \in employees : e.username = token.sub[1] /\ e.acl # "admin"

RejectionOf(check) ==
    CASE check \in {"jwt.decode", "get_by_username"} -> CredentialsException
      [] check = "active" -> InactiveUserException
      [] check = "acl" -> PermissionDeniedException

C5_ChecksInOrderFailFast ==
    ProtectedBy(Dependencies) =>
        LET token == request[1].token
            chain == Chain(request[1].dep)
            n == Len(gate.trace)
        IN  /\ n \in 1..Len(chain)
            /\ gate.trace = SubSeq(chain, 1, n)
            /\ \A i \in 1..(n - 1) : ~CheckFails(chain[i], token)
            /\ IF CheckFails(chain[n], token)
               THEN raised = <<RejectionOf(chain[n])>> /\ returned = <<>>
               ELSE n = Len(chain) /\ raised = <<>> /\ returned = gate.user
            /\ gate.user # <<>> =>
                  /\ ~CheckFails("jwt.decode", token)
                  /\ \E e \in employees :
                        /\ e.username = token.sub[1]
                        /\ gate.user = <<UserWithAuth(e)>>
            /\ raised = <<>> => gate.user # <<>>

C5_Witness ==
    /\ ProtectedBy({"get_current_active_superuser"})
    /\ \E e \in employees :
          /\ ~e.active
          /\ e.acl # "admin"
          /\ ValidTokenFor(request[1].token, e.username)
    /\ raised = <<InactiveUserException>>
    /\ gate.trace = <<"jwt.decode", "get_by_username", "active">>

----------------------------------------------------------------------------
(* C6: a create_customer request of an authorized user, with the name of a  *)
(* customer that is already stored, raises ConflictException("客户名称已存在"), *)
(* is answered with the exception's status 409 and a body of type           *)
(* "conflict" that carries the message, and stores no customer.             *)
C6_DuplicateCustomerNameConflicts ==
    [][(/\ request' # <<>>
        /\ request'[1].op = "create_customer"
        /\ Authorizes(request'[1].token)
        /\ \E c \in customers : c.name = request'[1].customer_in.name)
       => /\ raised' = <<ConflictException("customer name exists")>>
          /\ response' =
                <<JSONResponse(409, [message |-> "customer name exists",
                                     type |-> "conflict"])>>
          /\ returned' = <<>>
          /\ customers' = customers]_vars

C6_Witness ==
    /\ request # <<>>
    /\ request[1].op = "create_customer"
    /\ Authorizes(request[1].token)
    /\ \E c \in customers : c.name = request[1].customer_in.name
    /\ raised = <<ConflictException("customer name exists")>>

(* C7: when the commit of CRUDEmployee.create breaks the unique constraint  *)
(* (the username is already stored), the IntegrityError is caught, the      *)
(* session is rolled back, the employee table is as it was, and what leaves *)
(* create is a ConflictException, which the Error Dispatcher answers as a   *)
(* conflict and not as an integrity or internal error.                      *)
C7_IntegrityErrorBecomesConflict ==
    [][(/\ request' # <<>>
        /\ request'[1].op = "CRUDEmployee.create"
        /\ ~request'[1].fault
        /\ \/ request'[1].obj_in.password # <<>>
           \/ request'[1].obj_in.hashed_password # <<>>
        /\ Stored(request'[1].obj_in.username))
       => /\ employees' = employees
          /\ session' = CleanSession
          /\ returned' = <<>>
          /\ raised' # <<>>
          /\ raised'[1].cls = "ConflictException"
          /\ Dispatch(raised'[1]).response.content.type = "conflict"
          /\ Dispatch(raised'[1]).response.status_code = 409]_vars

C7_Witness ==
    /\ request # <<>>
    /\ request[1].op = "CRUDEmployee.create"
    /\ ~request[1].fault
    /\ Stored(request[1].obj_in.username)
    /\ raised = <<ConflictException("username or id exists")>>
    /\ session = CleanSession

(* C8: an exception is answered by the handler of the most specific class   *)
(* that has one; an exception whose only such class is Exception is         *)
(* answered with status 500 and one fixed body, whatever the exception, and *)
(* its text goes to the server log alone.                                   *)
Registered(cls) == \E i \in 1..Len(ExceptionHandlers) : ExceptionHandlers[i] = cls

IsSubclass(cls, base) == \E i \in 1..Len(Mro(cls)) : Mro(cls)[i] = base

(* The class with a handler that every other such class of exc is a base of *)
MostSpecific(cls) ==
    CHOOSE c \in {b \in Range(Mro(cls)) : Registered(b)} :
        \A d \in {b \in Range(Mro(cls)) : Registered(b)} : IsSubclass(c, d)

TypeOf(category) ==
    CASE category = "BusinessException" -> "business_error"
      [] category = "NotFoundException" -> "not_found"
      [] category = "ConflictException" -> "conflict"
      [] category = "IntegrityError" -> "integrity_error"
      [] category = "Exception" -> "internal_server_error"

InternalServerErrorBody ==
    [message |-> "internal server error", type |-> "internal_server_error"]

C8_MostSpecificHandlerAndNoLeak ==
    (raised # <<>> /\ response # <<>>) =>
        LET exc == raised[1]
            category == MostSpecific(exc.cls)
        IN  /\ category \in {"HTTPException", "RequestValidationError",
                             "ValidationError"}
                  => response[1].content = [detail |-> exc.detail]
            /\ category \in {"BusinessException", "NotFoundException",
                             "ConflictException", "IntegrityError",
                             "Exception"}
                  => response[1].content.type = TypeOf(category)
            /\ category \in {"BusinessException", "NotFoundException",
                             "ConflictException"}
                  => /\ response[1].content.message = exc.detail
                     /\ response[1].status_code = exc.status_code
            /\ category = "Exception"
                  => /\ response[1] = JSONResponse(500, InternalServerErrorBody)
                     /\ log = << <<"Unhandled exception", exc.detail>> >>

C8_Witness ==
    /\ raised # <<>>
    /\ raised[1].cls = "OperationalError"
    /\ response = <<JSONResponse(500, InternalServerErrorBody)>>
    /\ log = << <<"Unhandled exception", raised[1].detail>> >>

(* C9: CRUDEmployee.authenticate returns None, and nothing else, for an     *)
(* unknown username and for a known username with a wrong password: the two *)
(* results are the same for every choice of usernames and passwords.        *)
WrongPassword(username, password) ==
    \E e \in employees :
        e.username = username /\ e.hashed_password # get_password_hash(password)

C9_LoginFailuresAlike ==
    /\ \A u1, u2 \in Usernames, p1, p2 \in Passwords :
          (~Stored(u1) /\ WrongPassword(u2, p2))
          => CRUDEmployee_authenticate(employees, u1, p1)
                = CRUDEmployee_authenticate(employees, u2, p2)
    /\ (/\ request # <<>>
        /\ request[1].op = "CRUDEmployee.authenticate"
        /\ \/ ~Stored(request[1].username)
           \/ WrongPassword(request[1].username, request[1].password))
       => returned = <<>> /\ raised = <<>>

C9_Witness ==
    /\ request # <<>>
    /\ request[1].op = "CRUDEmployee.authenticate"
    /\ \E e \in employees : e.username = request[1].username /\ e.active
    /\ WrongPassword(request[1].username, request[1].password)
    /\ \E u \in Usernames : ~Stored(u)
    /\ returned = <<>>

(* C10: on a stored invoice, for an authorized user: void succeeds exactly  *)
(* when the invoice is active and leaves it inactive; unvoid succeeds       *)
(* exactly when it is inactive and leaves it active; send succeeds exactly  *)
(* when it is active; every other case is answered with status 400; and    *)
(* but for the active flag a successful void or unvoid sets, the invoice    *)
(* table is as it was.                                                      *)
C10_VoidUnvoidSend ==
    [][\A inv \in invoices :
        (/\ request' # <<>>
         /\ request'[1].op \in {"void_sales_invoice", "unvoid_sales_invoice",
                                "send_sales_invoice"}
         /\ Authorizes(request'[1].token)
         /\ request'[1].guid = inv.guid)
        => LET op == request'[1].op
               succeeds ==
                   IF op = "unvoid_sales_invoice" THEN ~inv.active
                   ELSE inv.active
           IN  IF succeeds
               THEN /\ raised' = <<>>
                    /\ response'[1].status_code =
                          IF op = "void_sales_invoice" THEN 204 ELSE 200
                    /\ invoices' =
                          IF op = "send_sales_invoice" THEN invoices
                          ELSE (invoices \ {inv})
                                  \cup {[inv EXCEPT !.active = ~inv.active]}
               ELSE /\ raised' # <<>>
                    /\ response'[1].status_code = 400
                    /\ invoices' = invoices]_vars

C10_Witness ==
    /\ request # <<>>
    /\ request[1].op = "void_sales_invoice"
    /\ Authorizes(request[1].token)
    /\ \E inv \in invoices : inv.guid = request[1].guid /\ ~inv.active
    /\ response[1].status_code = 400

(* C11: whatever the interleaving of create_customer and update_customer   *)
(* requests, each of which looks the name up and writes later, no two       *)
(* stored customers have the same name.                                     *)
C11_CustomerNamesUnique ==
    \A a, b \in customers : a.name = b.name => a = b

====
